---------------------------- MODULE Spec2Model ----------------------------
(***************************************************************************)
(* A model of scripts/refactoring_4/fishermatrix.py: the normalised-SVD   *)
(* pseudo-inverse invertSVD, the derivative dispatch, the network error    *)
(* aggregation compute_fisher_errors and the report pipeline               *)
(* analyze_and_save_to_txt.                                                *)
(*                                                                         *)
(* Numbers.  Every quantity the code computes from integer Fisher matrices *)
(* and integer SNRs is of the form  sgn * sqrt(n/d)  with n, d naturals:   *)
(* square roots of diagonal entries, their products, quotients by them.    *)
(* Such a number is the record [fin, sgn, n, d] (n/d in lowest terms);     *)
(* fin = FALSE is a non-finite float (nan, and inf, which occurs here only *)
(* beside a nan).  Arithmetic on these records is exact, so "equal within  *)
(* floating-point tolerance" is plain equality in the model.               *)
(*                                                                         *)
(* Indices are 1-based here (Python's are 0-based).                        *)
(***************************************************************************)
EXTENDS Integers, Sequences, FiniteSets, TLC

(***************************************************************************)
(* Bounds of the model.                                                    *)
(***************************************************************************)
\* Largest diagonal entry of the matrices handed to invertSVD on its own.
MaxDiag == 4
\* Largest absolute off-diagonal entry of those matrices.
MaxOff == 3
\* Largest number of signals (rows of the parameter table) of a population.
MaxSignals == 2
\* Longest list of Fisher parameters handed to FisherMatrix.
MaxParams == 3

(***************************************************************************)
(* Exact arithmetic on sgn * sqrt(n/d).                                    *)
(***************************************************************************)
Sign(x) == IF x > 0 THEN 1 ELSE IF x < 0 THEN -1 ELSE 0

Abs(x) == IF x < 0 THEN -x ELSE x

RECURSIVE Gcd(_, _)
Gcd(a, b) == IF b = 0 THEN a ELSE Gcd(b, a % b)

\* floor(sqrt(x)) for x >= 0, by bisection on lo..hi (lo*lo <= x < (hi+1)^2).
RECURSIVE IsqrtIn(_, _, _)
IsqrtIn(x, lo, hi) ==
    IF lo >= hi THEN lo
    ELSE LET mid == (lo + hi + 1) \div 2
         IN  IF mid * mid <= x THEN IsqrtIn(x, mid, hi) ELSE IsqrtIn(x, lo, mid - 1)

Isqrt(x) == IsqrtIn(x, 0, IF x < 46340 THEN x ELSE 46340)

IsSquare(x) == Isqrt(x) * Isqrt(x) = x

\* A non-finite float.
NaN == [fin |-> FALSE, sgn |-> 0, n |-> 0, d |-> 1]

\* sgn * sqrt(n/d), n >= 0, d > 0, in lowest terms.
Norm(s, n, d) ==
    IF n = 0 \/ s = 0 THEN [fin |-> TRUE, sgn |-> 0, n |-> 0, d |-> 1]
    ELSE LET g == Gcd(n, d)
         IN  [fin |-> TRUE, sgn |-> s, n |-> n \div g, d |-> d \div g]

\* The integer m.
OfInt(m) == Norm(Sign(m), m * m, 1)

\* The rational p/q, q # 0.
Frac(p, q) ==
    IF p = 0 THEN [fin |-> TRUE, sgn |-> 0, n |-> 0, d |-> 1]
    ELSE LET g == Gcd(Abs(p), Abs(q))
         IN  [fin |-> TRUE, sgn |-> Sign(p) * Sign(q),
              n |-> (Abs(p) \div g) * (Abs(p) \div g),
              d |-> (Abs(q) \div g) * (Abs(q) \div g)]

Neg(x) == IF x.fin THEN [x EXCEPT !.sgn = -x.sgn] ELSE NaN

Mul(x, y) ==
    IF ~x.fin \/ ~y.fin THEN NaN
    ELSE LET g1 == Gcd(x.n, y.d)
             g2 == Gcd(y.n, x.d)
         IN  Norm(x.sgn * y.sgn, (x.n \div g1) * (y.n \div g2),
                                 (x.d \div g2) * (y.d \div g1))

\* x / y as numpy divides floats: 0/0 is nan and x/0 is inf (with a
\* RuntimeWarning, never an exception); both are non-finite.
Div(x, y) ==
    IF ~x.fin \/ ~y.fin \/ y.sgn = 0 THEN NaN
    ELSE Mul(x, [fin |-> TRUE, sgn |-> y.sgn, n |-> y.d, d |-> y.n])

\* np.sqrt of the integer m: nan (with a RuntimeWarning) when m < 0.
SqrtInt(m) == IF m < 0 THEN NaN ELSE Norm(Sign(m), m, 1)

IsRational(x) == x.fin /\ IsSquare(x.n) /\ IsSquare(x.d)

\* Numerator and denominator of a rational x.
Num(x) == x.sgn * Isqrt(x.n)

Den(x) == Isqrt(x.d)

\* x + y for rationals x and y (the only sums the model needs).
Add(x, y) ==
    IF ~IsRational(x) \/ ~IsRational(y) THEN NaN
    ELSE Frac(Num(x) * Den(y) + Num(y) * Den(x), Den(x) * Den(y))

Sub(x, y) == Add(x, Neg(y))

\* floor(x / 10^e).
RECURSIVE FloorDivPow10(_, _)
FloorDivPow10(x, e) == IF e = 0 \/ x = 0 THEN x ELSE FloorDivPow10(x \div 10, e - 1)

\* p/q > 10^(-e), for naturals p and q > 0.
ExceedsPow10(p, q, e) == p > FloorDivPow10(q, e)

(***************************************************************************)
(* Matrices: sequences of rows.                                            *)
(***************************************************************************)
Dim(m) == Len(m)

Zeros(nd) == [i \in 1..nd |-> [j \in 1..nd |-> 0]]

MatAdd(a, b) == [i \in 1..Dim(a) |-> [j \in 1..Dim(a) |-> a[i][j] + b[i][j]]]

Scale(c, a) == [i \in 1..Dim(a) |-> [j \in 1..Dim(a) |-> c * a[i][j]]]

\* The integer matrix m as a matrix of numbers.
IntMat(m) == [i \in 1..Dim(m) |-> [j \in 1..Dim(m) |-> OfInt(m[i][j])]]

RECURSIVE DotFrom(_, _, _, _, _)
DotFrom(a, b, i, j, l) ==
    IF l > Dim(a) THEN OfInt(0)
    ELSE Add(Mul(a[i][l], b[l][j]), DotFrom(a, b, i, j, l + 1))

\* a @ b for matrices of rationals.
MatMul(a, b) == [i \in 1..Dim(a) |-> [j \in 1..Dim(a) |-> DotFrom(a, b, i, j, 1)]]

Identity(nd) == [i \in 1..nd |-> [j \in 1..nd |-> IF i = j THEN OfInt(1) ELSE OfInt(0)]]

AllRational(a) == \A i \in 1..Dim(a) : \A j \in 1..Dim(a) : IsRational(a[i][j])

\* The elementwise quotient a / b and product a * b of two matrices.
ElementwiseDiv(a, b) == [i \in 1..Dim(a) |-> [j \in 1..Dim(a) |-> Div(a[i][j], b[i][j])]]

ElementwiseMul(a, b) == [i \in 1..Dim(a) |-> [j \in 1..Dim(a) |-> Mul(a[i][j], b[i][j])]]

HasNonPositiveDiagonal(m) == \E i \in 1..Dim(m) : m[i][i] <= 0

(***************************************************************************)
(* invertSVD (fishermatrix.py:13-25), for symmetric integer matrices of    *)
(* dimension 1 and 2.                                                      *)
(***************************************************************************)
\* thresh = 1e-10, as the exponent of 10^(-10).
thresh_exponent == 10

\* dm = np.sqrt(np.diag(matrix))
dm(matrix) == [i \in 1..Dim(matrix) |-> SqrtInt(matrix[i][i])]

\* normalizer = np.outer(dm, dm)
normalizer(matrix) ==
    LET v == dm(matrix)
    IN  [i \in 1..Dim(matrix) |-> [j \in 1..Dim(matrix) |-> Mul(v[i], v[j])]]

\* matrix_norm = matrix / normalizer (elementwise).  A diagonal entry
\* matrix[i][i] <= 0 makes matrix_norm[i][i] nan: 0/0, or x/nan.
matrix_norm(matrix) == ElementwiseDiv(IntMat(matrix), normalizer(matrix))

\* np.linalg.svd raises LinAlgError ("SVD did not converge") when LAPACK's
\* gesdd reports an error, which it does for an input holding a nan.
svd_raises(a) == \E i \in 1..Dim(a) : \E j \in 1..Dim(a) : ~a[i][j].fin

\* The singular values S of a finite matrix_norm, largest first.  Dimension 1:
\* <<|x|>>.  Dimension 2: matrix_norm is [[1, r], [r, 1]] (unit diagonal by
\* construction, symmetric as matrix is), whose eigenvalues are 1 + r and
\* 1 - r, so S = <<1 + |r|, |1 - |r||>>.  A singular value |c + sigma*|r||
\* is the record [c, sigma, r].
S(a) ==
    IF Dim(a) = 1 THEN << [c |-> 0, sigma |-> 1, r |-> a[1][1]] >>
    ELSE << [c |-> 1, sigma |-> 1, r |-> a[1][2]],
            [c |-> 1, sigma |-> -1, r |-> a[1][2]] >>

\* s > thresh.  With r^2 = n/d:  |r| > 10^-10 iff n/d > 10^-20;  1 + |r| >= 1;
\* |1 - |r|| = |d - n| / (d + sqrt(n*d)) >= |d - n| / (d + Isqrt(n*d) + 1),
\* and that lower bound decides the comparison for every n, d below 2^31
\* (n # d gives at least 1/2^32 > 10^-10, n = d gives 0).
AboveThresh(s) ==
    IF s.c = 0 THEN ExceedsPow10(s.r.n, s.r.d, 2 * thresh_exponent)
    ELSE IF s.sigma = 1 THEN TRUE
    ELSE ExceedsPow10(Abs(s.r.d - s.r.n), s.r.d + Isqrt(s.r.n * s.r.d) + 1,
                      thresh_exponent)

\* kVal = sum(S > thresh)
kVal(a) == Cardinality({i \in 1..Len(S(a)) : AboveThresh(S(a)[i])})

\* matrix_inverse_norm = U[:, 0:kVal] @ np.diag(1.0 / S[0:kVal]) @ Vh[0:kVal, :]
\* Dimension 2, with e1 = (1, s)/sqrt(2), e2 = (1, -s)/sqrt(2), s = sign(r):
\* U = [e1 e2], Vh = [e1; sign(1 - |r|) e2].  Keeping both terms gives
\*   1/(1+|r|) e1 e1^T + 1/(1-|r|) e2 e2^T = 1/(1 - r^2) [[1, -r], [-r, 1]];
\* keeping only the first gives 1/(2 (1+|r|)) [[1, s], [s, 1]], where |r| is
\* rational (the dropped singular value |1 - |r|| is below thresh only at
\* |r| = 1).  No term kept gives the zero matrix.
matrix_inverse_norm(a) ==
    LET k == kVal(a) IN
    IF k = 0 THEN [i \in 1..Dim(a) |-> [j \in 1..Dim(a) |-> OfInt(0)]]
    ELSE IF Dim(a) = 1 THEN << << Div(OfInt(1), a[1][1]) >> >>
    ELSE LET r == a[1][2] IN
         IF k = 2
         THEN LET q == Frac(r.d, r.d - r.n)
              IN  << << q, Mul(Neg(r), q) >>, << Mul(Neg(r), q), q >> >>
         ELSE LET absr == [r EXCEPT !.sgn = 1]
                  h == Div(OfInt(1), Mul(OfInt(2), Add(OfInt(1), absr)))
              IN  << << h, Mul(OfInt(r.sgn), h) >>, << Mul(OfInt(r.sgn), h), h >> >>

\* A variant of invertSVD: the last line multiplies by normalizer.
invertSVD_times_normalizer(matrix) ==
    LET a == matrix_norm(matrix) IN
    IF svd_raises(a)
    THEN [raised |-> "LinAlgError", value |-> << >>]
    ELSE [raised |-> "none",
          value |-> ElementwiseMul(matrix_inverse_norm(a), normalizer(matrix))]

\* A variant of invertSVD: a degenerate matrix is answered with zeros.
invertSVD_zeros_if_degenerate(matrix) ==
    LET a == matrix_norm(matrix) IN
    IF svd_raises(a)
    THEN [raised |-> "none",
          value |-> [i \in 1..Dim(matrix) |-> [j \in 1..Dim(matrix) |-> OfInt(0)]]]
    ELSE [raised |-> "none",
          value |-> ElementwiseDiv(matrix_inverse_norm(a), normalizer(matrix))]

\* invertSVD(matrix): the matrix returned, or the exception that leaves it
\* (np.linalg.svd's; nothing in invertSVD catches it).
invertSVD(matrix) ==
    LET a == matrix_norm(matrix) IN
    IF svd_raises(a)
    THEN [raised |-> "LinAlgError", value |-> << >>]
    ELSE [raised |-> "none",
          value |-> ElementwiseDiv(matrix_inverse_norm(a), normalizer(matrix))]

(***************************************************************************)
(* sky_localization_area and compute_fisher_errors                         *)
(* (fishermatrix.py:129-221).                                              *)
(*                                                                         *)
(* A network is [detectors, detection_SNR]; a detector is [name, SNR,      *)
(* fisher_matrix], SNR[k] and fisher_matrix[k] being signal k's.  The      *)
(* parameter table is [columns, rows]: rows[k] holds signal k's values in  *)
(* column order.                                                           *)
(***************************************************************************)
Range(seq) == {seq[i] : i \in 1..Len(seq)}

\* list.index(x): the first position of x.
Index(seq, x) == CHOOSE i \in 1..Len(seq) : seq[i] = x /\ \A j \in 1..(i - 1) : seq[j] # x

\* x > y on numbers; a comparison with a nan is False.
Gt(x, y) == x.fin /\ y.fin /\ x.sgn * x.n * y.d > y.sgn * y.n * x.d

\* np.sqrt(x) of a number, kept symbolic: nan for a negative or non-finite x.
Sqrt(x) == [sqrt_of |-> IF x.fin /\ x.sgn >= 0 THEN x ELSE NaN]

\* pi * |cos(declination_angle)| * sqrt(inv[ra,ra] * inv[dec,dec] - inv[ra,dec]^2),
\* kept symbolic in the angle.
sky_localization_area(network_fisher_inverse, declination_angle, right_ascension_index, declination_index) ==
    [pi_abs_cos_of |-> declination_angle,
     sqrt_of |->
        Sqrt(Sub(Mul(network_fisher_inverse[right_ascension_index][right_ascension_index],
                     network_fisher_inverse[declination_index][declination_index]),
                 Mul(network_fisher_inverse[right_ascension_index][declination_index],
                     network_fisher_inverse[right_ascension_index][declination_index]))
            ).sqrt_of]

\* sum((detector.SNR**2 for detector in detectors)), at signal k.
RECURSIVE SumOfSquares(_, _, _)
SumOfSquares(detectors, k, i) ==
    IF i > Len(detectors) THEN 0
    ELSE detectors[i].SNR[k] * detectors[i].SNR[k] + SumOfSquares(detectors, k, i + 1)

\* detectors = [network.detectors[d] for d in sub_network_ids]
selected_detectors(network, sub_network_ids) ==
    [i \in 1..Len(sub_network_ids) |-> network.detectors[sub_network_ids[i]]]

\* A variant of network_snr_of: only the detectors above the per-detector
\* inclusion threshold are summed.
network_snr_of_included_detectors(network, sub_network_ids, n_signals) ==
    LET ds == selected_detectors(network, sub_network_ids)
    IN  [k \in 1..n_signals |->
            SqrtInt(SumOfSquares(
                SelectSeq(ds, LAMBDA det : det.SNR[k] > network.detection_SNR[1]), k, 1))]

\* Lines 193-195:
\* network_snr = np.sqrt(sum((detector.SNR**2 for detector in detectors)))
network_snr_of(network, sub_network_ids, n_signals) ==
    [k \in 1..n_signals |->
        SqrtInt(SumOfSquares(selected_detectors(network, sub_network_ids), k, 1))]

\* A variant of network_fisher_matrix_of: the inclusion test uses the network
\* threshold detection_SNR[1] instead of the per-detector one.
RECURSIVE network_fisher_matrix_wrong_threshold(_, _, _, _, _)
network_fisher_matrix_wrong_threshold(detectors, detection_SNR, n_params, k, i) ==
    IF i > Len(detectors) THEN Zeros(n_params)
    ELSE LET rest == network_fisher_matrix_wrong_threshold(detectors, detection_SNR,
                                                           n_params, k, i + 1)
         IN  IF detectors[i].SNR[k] > detection_SNR[2]
             THEN MatAdd(detectors[i].fisher_matrix[k], rest)
             ELSE rest

\* The inner loop of lines 198-202: the sum of detector.fisher_matrix[k] over
\* the detectors (from the i-th on) with detector.SNR[k] > detector_snr_thr,
\* the first element of detection_SNR.
RECURSIVE network_fisher_matrix_of(_, _, _, _, _)
network_fisher_matrix_of(detectors, detection_SNR, n_params, k, i) ==
    IF i > Len(detectors) THEN Zeros(n_params)
    ELSE LET rest == network_fisher_matrix_of(detectors, detection_SNR, n_params, k, i + 1)
         IN  IF detectors[i].SNR[k] > detection_SNR[1]
             THEN MatAdd(detectors[i].fisher_matrix[k], rest)
             ELSE rest

\* One pass of the loop over signals, lines 197-210, from signal k on.  acc
\* holds parameter_errors and sky_localization as filled so far and, in
\* inverted, the matrices handed to invertSVD so far.  The loop runs over
\* every signal, detected or not, and an exception of invertSVD ends it.
RECURSIVE signal_loop(_, _, _, _, _, _)
signal_loop(detectors, detection_SNR, parameter_values, fisher_parameters, k, acc) ==
    IF k > Len(parameter_values.rows) THEN acc
    ELSE LET n_params == Len(fisher_parameters)
             signals_havesky == "ra" \in Range(fisher_parameters)
                                /\ "dec" \in Range(fisher_parameters)
             network_fisher_matrix ==
                 network_fisher_matrix_of(detectors, detection_SNR, n_params, k, 1)
             network_fisher_inverse == invertSVD(network_fisher_matrix)
         IN  IF network_fisher_inverse.raised # "none"
             THEN [acc EXCEPT !.raised = network_fisher_inverse.raised,
                              !.inverted = Append(@, network_fisher_matrix)]
             ELSE signal_loop(detectors, detection_SNR, parameter_values,
                              fisher_parameters, k + 1,
                     [raised |-> "none",
                      inverted |-> Append(acc.inverted, network_fisher_matrix),
                      parameter_errors |-> Append(acc.parameter_errors,
                          [i \in 1..n_params |-> Sqrt(network_fisher_inverse.value[i][i])]),
                      sky_localization |->
                          IF signals_havesky
                          THEN Append(acc.sky_localization,
                                  sky_localization_area(
                                      network_fisher_inverse.value,
                                      parameter_values.rows[k][Index(parameter_values.columns, "dec")],
                                      Index(fisher_parameters, "ra"),
                                      Index(fisher_parameters, "dec")))
                          ELSE acc.sky_localization])

\* A variant of detected_from: the filter keeps network_snr >= network_snr_thr.
RECURSIVE detected_at_or_above(_, _, _)
detected_at_or_above(network_snr, network_snr_thr, k) ==
    IF k > Len(network_snr) THEN << >>
    ELSE IF ~Gt(OfInt(network_snr_thr), network_snr[k])
         THEN << k >> \o detected_at_or_above(network_snr, network_snr_thr, k + 1)
         ELSE detected_at_or_above(network_snr, network_snr_thr, k + 1)

\* detected = np.where(network_snr > network_snr_thr)[0], from signal k on:
\* the indices, in increasing order.
RECURSIVE detected_from(_, _, _)
detected_from(network_snr, network_snr_thr, k) ==
    IF k > Len(network_snr) THEN << >>
    ELSE IF Gt(network_snr[k], OfInt(network_snr_thr))
         THEN << k >> \o detected_from(network_snr, network_snr_thr, k + 1)
         ELSE detected_from(network_snr, network_snr_thr, k + 1)

\* array[detected]
Take(array, detected) == [i \in 1..Len(detected) |-> array[detected[i]]]

\* No sky-localization array: Python's None.
None == [is_none |-> TRUE, values |-> << >>]

NoResult == [network_snr |-> << >>, parameter_errors |-> << >>, sky_localization |-> None]

\* A variant of returned_sky_localization: the array is returned unfiltered.
returned_sky_localization_unfiltered(signals_havesky, sky_localization, detected) ==
    IF signals_havesky THEN [is_none |-> FALSE, values |-> sky_localization] ELSE None

\* The third element returned, lines 214-221: sky_localization[detected] when
\* signals_havesky, None otherwise.
returned_sky_localization(signals_havesky, sky_localization, detected) ==
    IF signals_havesky
    THEN [is_none |-> FALSE, values |-> Take(sky_localization, detected)]
    ELSE None

\* compute_fisher_errors: the exception that leaves it ("none": it returns),
\* its locals network_snr (all signals) and detected, the matrices it handed
\* to invertSVD, and the triple it returns.
compute_fisher_errors(network, parameter_values, fisher_parameters, sub_network_ids) ==
    LET n_params == Len(fisher_parameters)
        n_signals == Len(parameter_values.rows)
        signals_havesky == "ra" \in Range(fisher_parameters)
                           /\ "dec" \in Range(fisher_parameters)
        detectors == selected_detectors(network, sub_network_ids)
        network_snr == network_snr_of(network, sub_network_ids, n_signals)
        loop == signal_loop(detectors, network.detection_SNR, parameter_values,
                            fisher_parameters, 1,
                            [raised |-> "none", inverted |-> << >>,
                             parameter_errors |-> << >>, sky_localization |-> << >>])
        detected == detected_from(network_snr, network.detection_SNR[2], 1)
    IN  IF n_params = 0 \/ n_signals = 0
        THEN [raised |-> "AssertionError", network_snr |-> << >>, inverted |-> << >>,
              detected |-> << >>, result |-> NoResult]
        ELSE IF loop.raised # "none"
        THEN [raised |-> loop.raised, network_snr |-> network_snr,
              inverted |-> loop.inverted, detected |-> << >>, result |-> NoResult]
        ELSE [raised |-> "none", network_snr |-> network_snr,
              inverted |-> loop.inverted, detected |-> detected,
              result |->
                 [network_snr |-> Take(network_snr, detected),
                  parameter_errors |-> Take(loop.parameter_errors, detected),
                  sky_localization |->
                     returned_sky_localization(signals_havesky, loop.sky_localization,
                                               detected)]]

(***************************************************************************)
(* output_to_txt_file, errors_file_name (fishermatrix.py:224-270).         *)
(***************************************************************************)
\* The header, as the sequence of its space-separated words, each word the
\* tuple of the strings it is concatenated from.
header_of(parameter_values, sky_localization, fisher_parameters) ==
    << << "network_SNR" >> >>
    \o [i \in 1..Len(parameter_values.columns) |-> << parameter_values.columns[i] >>]
    \o [i \in 1..Len(fisher_parameters) |-> << "err_", fisher_parameters[i] >>]
    \o (IF sky_localization.is_none THEN << >> ELSE << << "err_sky_location" >> >>)

\* The filename, as its parts: "Errors_" + "_".join(names) + "_" +
\* population_name + "_SNR" + str(network.detection_SNR[1]).
errors_file_name(network, sub_network_ids, population_name) ==
    [prefix |-> "Errors_",
     sub_network |-> [i \in 1..Len(sub_network_ids) |-> network.detectors[sub_network_ids[i]].name],
     population |-> population_name,
     SNR |-> network.detection_SNR[2]]

\* output_to_txt_file: np.c_ raises ValueError unless every block has the
\* same number of rows; otherwise np.savetxt gets filename + ".txt", the rows
\* network_snr | parameter_values | parameter_errors [| sky_localization],
\* the header and the row format "%s" followed by one "%.3E" per other column.
output_to_txt_file(parameter_values, network_snr, parameter_errors, sky_localization, fisher_parameters, filename) ==
    IF Len(parameter_values.rows) # Len(network_snr)
       \/ Len(parameter_values.rows) # Len(parameter_errors)
       \/ (~sky_localization.is_none /\ Len(sky_localization.values) # Len(network_snr))
    THEN [raised |-> "ValueError", file |-> << >>]
    ELSE LET save_data ==
                 [k \in 1..Len(network_snr) |->
                     << network_snr[k] >> \o parameter_values.rows[k] \o parameter_errors[k]
                     \o (IF sky_localization.is_none THEN << >>
                         ELSE << sky_localization.values[k] >>)]
             n_columns == 1 + Len(parameter_values.columns) + Len(fisher_parameters)
                          + (IF sky_localization.is_none THEN 0 ELSE 1)
         IN  [raised |-> "none",
              file |-> << [name |-> << filename, ".txt" >>,
                           header |-> header_of(parameter_values, sky_localization,
                                                fisher_parameters),
                           data |-> save_data,
                           fmt |-> << "%s" >> \o [i \in 1..(n_columns - 1) |-> "%.3E"]] >>]

(***************************************************************************)
(* derivative (fishermatrix.py:28-107).                                    *)
(*                                                                         *)
(* A ParameterVector is a function from its keys to rationals [num, den].  *)
(* The waveform generator and the projection are collaborators outside     *)
(* this file; their results are kept symbolic: what was computed from      *)
(* which arguments.  A call of derivative is the exception that leaves it  *)
(* ("none": it returns), the derivative array and the collaborator calls   *)
(* made, in order.                                                         *)
(***************************************************************************)
\* eps = 1e-5, as 1/eps_inverse.
eps_inverse == 100000

Rational(num, den) == [num |-> num, den |-> den]

\* wf.hphc_amplitudes(waveform, parameters, detector.frequencyvector):
\* the pair (wave, t_of_f).
hphc_amplitudes(waveform, parameters, frequencyvector) ==
    [wave |-> [hphc_of |-> parameters, waveform |-> waveform, on |-> frequencyvector],
     t_of_f |-> [t_of_f_of |-> parameters, shifted_by |-> Rational(0, 1)]]

\* det.projection(parameters, detector, wave, t_of_f)
projection(parameters, detector, wave, t_of_f) ==
    [projection_of |-> parameters, detector |-> detector.name, wave |-> wave,
     t_of_f |-> t_of_f]

\* dp = np.maximum(eps, eps * pv)
step(pv) ==
    IF pv.num > pv.den THEN Rational(pv.num, pv.den * eps_inverse)
    ELSE Rational(1, eps_inverse)

\* A variant of perturbed: a forward difference, pv and pv + dp.
perturbed_forward(pv, dp, sign) ==
    IF sign < 0 THEN pv ELSE Rational(pv.num * dp.den + dp.num * pv.den, pv.den * dp.den)

\* pv + sign * dp / 2.0
perturbed(pv, dp, sign) ==
    Rational(pv.num * 2 * dp.den + sign * dp.num * pv.den, pv.den * 2 * dp.den)

NoDerivative == [kind |-> "none"]

KeyError(hphc_calls) ==
    [raised |-> "KeyError", value |-> NoDerivative, hphc_calls |-> hphc_calls,
     projection_calls |-> << >>]

derivative(waveform, parameter_values, p, detector) ==
    LET local_params == parameter_values
        keys == DOMAIN parameter_values
        f == detector.frequencyvector
    IN
    \* line 37: tc = local_params["geocent_time"]
    IF "geocent_time" \notin keys THEN KeyError(<< >>)
    ELSE
    LET tc == local_params["geocent_time"]
        unperturbed == hphc_amplitudes(waveform, local_params, f)
        closed_form(factor) ==
            [raised |-> "none",
             value |-> [kind |-> "closed form", factor |-> factor,
                        signal |-> projection(local_params, detector,
                                              unperturbed.wave, unperturbed.t_of_f)],
             hphc_calls |-> << local_params >>,
             projection_calls |-> << local_params >>]
    IN
    IF p = "luminosity_distance"
    THEN \* lines 40-47: the waveform first, then local_params[p]
         IF p \notin keys THEN KeyError(<< local_params >>)
         ELSE closed_form(<< "-1.0 /", local_params[p] >>)
    ELSE IF p = "geocent_time"
    THEN closed_form(<< "2j * pi * frequencyvector" >>)
    ELSE IF p = "phase"
    THEN \* lines 58-62: local_params[p] is never read
         closed_form(<< "-1j" >>)
    ELSE \* line 64: pv = local_params[p]
    IF p \notin keys THEN KeyError(<< >>)
    ELSE
    LET pv == local_params[p]
        dp == step(pv)
        pv_set1 == [parameter_values EXCEPT ![p] = perturbed(pv, dp, -1)]
        pv_set2 == [parameter_values EXCEPT ![p] = perturbed(pv, dp, 1)]
    IN
    IF p \in {"ra", "dec", "psi"}
    THEN [raised |-> "none",
          value |-> [kind |-> "central difference",
                     factor |-> << "1" >>,
                     signal2 |-> projection(pv_set2, detector, unperturbed.wave,
                                            unperturbed.t_of_f),
                     signal1 |-> projection(pv_set1, detector, unperturbed.wave,
                                            unperturbed.t_of_f),
                     dp |-> dp],
          hphc_calls |-> << local_params >>,
          projection_calls |-> << pv_set1, pv_set2 >>]
    ELSE LET zeroed1 == [pv_set1 EXCEPT !["geocent_time"] = Rational(0, 1)]
             zeroed2 == [pv_set2 EXCEPT !["geocent_time"] = Rational(0, 1)]
             generated1 == hphc_amplitudes(waveform, zeroed1, f)
             generated2 == hphc_amplitudes(waveform, zeroed2, f)
             restored1 == [zeroed1 EXCEPT !["geocent_time"] = tc]
             restored2 == [zeroed2 EXCEPT !["geocent_time"] = tc]
         IN  [raised |-> "none",
              value |-> [kind |-> "central difference",
                         factor |-> << "exp(2j * pi * frequencyvector * tc)", tc >>,
                         signal2 |-> projection(restored2, detector, generated2.wave,
                                        [generated2.t_of_f EXCEPT !.shifted_by = tc]),
                         signal1 |-> projection(restored1, detector, generated1.wave,
                                        [generated1.t_of_f EXCEPT !.shifted_by = tc]),
                         dp |-> dp],
              hphc_calls |-> << zeroed1, zeroed2 >>,
              projection_calls |-> << restored1, restored2 >>]

(***************************************************************************)
(* FisherMatrix (fishermatrix.py:110-126).                                 *)
(*                                                                         *)
(* The noise-weighted inner product aux.scalar_product is a collaborator   *)
(* outside this file; an entry of the matrix records the two derivatives   *)
(* it was summed from.  A call is the exception that leaves it, the matrix *)
(* and the parameter names derivative was called with, in order.           *)
(***************************************************************************)
\* np.sum(aux.scalar_product(deriv1, deriv2, detector), axis=0)
scalar_product(deriv1, deriv2, detector) ==
    [sum_of_scalar_product_of |-> << deriv1, deriv2 >>, detector |-> detector.name]

\* A variant of row_evaluations: the row derivative is computed again for
\* every entry of the row.
row_evaluations_uncached(nd, p1) ==
    << p1 >> \o [i \in 1..(2 * (nd - p1)) |-> IF i % 2 = 1 THEN p1 ELSE p1 + (i \div 2)]

\* Lines 116-122: the places of fisher_parameters that derivative is called
\* for while row p1 is filled: p1 once, then every p2 in p1+1..nd.
row_evaluations(nd, p1) ==
    << p1 >> \o [i \in 1..(nd - p1) |-> p1 + i]

\* Lines 115-124, all rows in order.
RECURSIVE derivative_evaluations(_, _)
derivative_evaluations(nd, p1) ==
    IF p1 > nd THEN << >>
    ELSE row_evaluations(nd, p1) \o derivative_evaluations(nd, p1 + 1)

FisherMatrix(waveform, parameter_values, fisher_parameters, detector) ==
    LET nd == Len(fisher_parameters)
        places == derivative_evaluations(nd, 1)
        deriv == [p1 \in 1..nd |->
                     derivative(waveform, parameter_values, fisher_parameters[p1], detector)]
        failing == {i \in 1..Len(places) : deriv[places[i]].raised # "none"}
        last == IF failing = {} THEN Len(places)
                ELSE CHOOSE i \in failing : \A j \in failing : i <= j
        derivative_calls == [i \in 1..last |-> fisher_parameters[places[i]]]
    IN  IF failing # {}
        THEN [raised |-> deriv[places[last]].raised, fm |-> << >>,
              derivative_calls |-> derivative_calls]
        ELSE [raised |-> "none",
              fm |-> [p1 \in 1..nd |-> [p2 \in 1..nd |->
                         IF p1 <= p2
                         THEN scalar_product(deriv[p1].value, deriv[p2].value, detector)
                         ELSE scalar_product(deriv[p2].value, deriv[p1].value, detector)]],
              derivative_calls |-> derivative_calls]

(***************************************************************************)
(* analyzeFisherErrors of refactoring_3 (refactoring_3/fishermatrix.py:    *)
(* 100-211), the function that compute_fisher_errors, output_to_txt_file,  *)
(* errors_file_name and analyze_and_save_to_txt were split from, for a     *)
(* parameter table without an "id" column.  invertSVD, the network SNR,    *)
(* the inclusion of detectors and the sky area are the same code in both   *)
(* files and use the definitions above.                                    *)
(***************************************************************************)
\* Lines 143-168 from signal k on: a signal is inverted only if its network
\* SNR is above detect_SNR[1] (line 146) and npar > 0 (line 153); the others
\* keep the zeros of lines 136-137.
RECURSIVE analyzeFisherErrors_signal_loop(_, _, _, _, _, _, _)
analyzeFisherErrors_signal_loop(detectors, detect_SNR, networkSNR, parameter_values, fisher_parameters, k, acc) ==
    IF k > Len(networkSNR) THEN acc
    ELSE LET npar == Len(fisher_parameters)
             signals_havesky == "ra" \in Range(fisher_parameters)
                                /\ "dec" \in Range(fisher_parameters)
             zeros == [raised |-> "none",
                       parameter_errors |-> Append(acc.parameter_errors,
                                                   [i \in 1..npar |-> Sqrt(OfInt(0))]),
                       sky_localization |-> Append(acc.sky_localization, OfInt(0))]
         IN  IF ~(Gt(networkSNR[k], OfInt(detect_SNR[2])) /\ npar > 0)
             THEN analyzeFisherErrors_signal_loop(detectors, detect_SNR, networkSNR,
                      parameter_values, fisher_parameters, k + 1, zeros)
             ELSE LET network_fisher_inverse ==
                          invertSVD(network_fisher_matrix_of(detectors, detect_SNR, npar, k, 1))
                  IN  IF network_fisher_inverse.raised # "none"
                      THEN [acc EXCEPT !.raised = network_fisher_inverse.raised]
                      ELSE analyzeFisherErrors_signal_loop(detectors, detect_SNR, networkSNR,
                               parameter_values, fisher_parameters, k + 1,
                               [raised |-> "none",
                                parameter_errors |-> Append(acc.parameter_errors,
                                    [i \in 1..npar |-> Sqrt(network_fisher_inverse.value[i][i])]),
                                sky_localization |->
                                    IF signals_havesky
                                    THEN Append(acc.sky_localization,
                                            sky_localization_area(
                                                network_fisher_inverse.value,
                                                parameter_values.rows[k][Index(parameter_values.columns, "dec")],
                                                Index(fisher_parameters, "ra"),
                                                Index(fisher_parameters, "dec")))
                                    ELSE zeros.sky_localization])

\* Lines 135-211 for the selection at place n: the np.savetxt call made, or
\* the exception raised before it.
analyzeFisherErrors_selection(network, parameter_values, fisher_parameters, population, networks_ids, n) ==
    LET ns == Len(network.detectors[1].fisher_matrix)
        detect_SNR == network.detection_SNR
        signals_havesky == "ra" \in Range(fisher_parameters)
                           /\ "dec" \in Range(fisher_parameters)
        detectors == selected_detectors(network, networks_ids[n])
        networkSNR == network_snr_of(network, networks_ids[n], ns)
        loop == analyzeFisherErrors_signal_loop(detectors, detect_SNR, networkSNR,
                    parameter_values, fisher_parameters, 1,
                    [raised |-> "none", parameter_errors |-> << >>,
                     sky_localization |-> << >>])
        ii == detected_from(networkSNR, detect_SNR[2], 1)
        sky_localization == IF signals_havesky
                            THEN [is_none |-> FALSE, values |-> Take(loop.sky_localization, ii)]
                            ELSE None
        save_data ==
            [j \in 1..Len(ii) |->
                << networkSNR[ii[j]] >> \o parameter_values.rows[ii[j]]
                \o loop.parameter_errors[ii[j]]
                \o (IF signals_havesky THEN << loop.sky_localization[ii[j]] >> ELSE << >>)]
    IN  IF loop.raised # "none" THEN [raised |-> loop.raised, file |-> << >>]
        ELSE [raised |-> "none",
              file |-> << [name |-> << [prefix |-> "Errors_",
                                        sub_network |->
                                            [i \in 1..Len(networks_ids[n]) |->
                                                network.detectors[networks_ids[n][i]].name],
                                        population |-> population,
                                        SNR |-> detect_SNR[2]],
                                       ".txt" >>,
                           header |-> header_of(parameter_values, sky_localization,
                                                fisher_parameters),
                           data |-> save_data,
                           \* line 211: no fmt is passed, np.savetxt's default
                           fmt |-> << "%.18e" >>] >>]

\* The loop of line 135 from place n on; an exception ends the function.
RECURSIVE analyzeFisherErrors_from(_, _, _, _, _, _, _)
analyzeFisherErrors_from(network, parameter_values, fisher_parameters, population, networks_ids, n, files) ==
    IF n > Len(networks_ids) THEN [raised |-> "none", files |-> files]
    ELSE LET out == analyzeFisherErrors_selection(network, parameter_values,
                        fisher_parameters, population, networks_ids, n)
         IN  IF out.raised # "none" THEN [raised |-> out.raised, files |-> files]
             ELSE analyzeFisherErrors_from(network, parameter_values, fisher_parameters,
                      population, networks_ids, n + 1, files \o out.file)

analyzeFisherErrors(network, parameter_values, fisher_parameters, population, networks_ids) ==
    analyzeFisherErrors_from(network, parameter_values, fisher_parameters, population,
                             networks_ids, 1, << >>)

(***************************************************************************)
(* What the calls leave in the objects handed to them.                     *)
(*                                                                         *)
(* Python passes references: a ParameterVector or an array is an object,   *)
(* and an item assignment or += writes into whatever object the name       *)
(* refers to.  objects maps each object to its contents; the caller's      *)
(* objects are those handed in, the others are made by .copy() or          *)
(* np.zeros during the call.                                               *)
(***************************************************************************)
\* A variant of copy: the new name refers to the object copied from.
copy_by_reference(objects, ref, name) == [objects |-> objects, ref |-> ref]

\* ref.copy(), bound to name: a new object with the same contents.
copy(objects, ref, name) ==
    [objects |-> [o \in DOMAIN objects \cup {name} |->
                     IF o = name THEN objects[ref] ELSE objects[o]],
     ref |-> name]

\* ref[key] = value
setitem(objects, ref, key, value) == [objects EXCEPT ![ref][key] = value]

\* derivative, lines 35-98: the caller's parameter_values after the call,
\* returning or failing.
after_derivative(parameter_values, p) ==
    LET keys == DOMAIN parameter_values
        caller == "parameter_values"
        local_params == copy([o \in {caller} |-> parameter_values], caller, "local_params")
    IN
    IF \/ "geocent_time" \notin keys
       \/ p \in {"luminosity_distance", "geocent_time", "phase"}
       \/ p \notin keys
    THEN local_params.objects[caller]
    ELSE
    LET tc == local_params.objects[local_params.ref]["geocent_time"]
        pv == local_params.objects[local_params.ref][p]
        dp == step(pv)
        pv_set1 == copy(local_params.objects, caller, "pv_set1")
        pv_set2 == copy(pv_set1.objects, caller, "pv_set2")
        \* lines 71-72
        perturbed1 == setitem(pv_set2.objects, pv_set1.ref, p, perturbed(pv, dp, -1))
        perturbed2 == setitem(perturbed1, pv_set2.ref, p, perturbed(pv, dp, 1))
    IN
    IF p \in {"ra", "dec", "psi"} THEN perturbed2[caller]
    ELSE
    LET \* lines 84-87
        zeroed1 == setitem(perturbed2, pv_set1.ref, "geocent_time", Rational(0, 1))
        zeroed2 == setitem(zeroed1, pv_set2.ref, "geocent_time", Rational(0, 1))
        \* lines 95-96
        restored1 == setitem(zeroed2, pv_set1.ref, "geocent_time", tc)
        restored2 == setitem(restored1, pv_set2.ref, "geocent_time", tc)
    IN  restored2[caller]

\* FisherMatrix, lines 115-124: the caller's parameter_values after the
\* derivative calls made, in order (the same object is handed to each).
RECURSIVE after_FisherMatrix(_, _)
after_FisherMatrix(parameter_values, derivative_calls) ==
    IF derivative_calls = << >> THEN parameter_values
    ELSE after_FisherMatrix(after_derivative(parameter_values, Head(derivative_calls)),
                            Tail(derivative_calls))

\* np.zeros((nd, nd)): a new array, object 0 (object d >= 1 is the
\* fisher_matrix array of network.detectors[d]).
np_zeros(objects, nd) == [objects |-> [objects EXCEPT ![0] = Zeros(nd)], ref |-> 0]

\* Lines 200-202 for signal k, from place i of sub_network_ids on:
\* network_fisher_matrix += detector.fisher_matrix[k, :, :], in place.
RECURSIVE after_detector_loop(_, _, _, _, _, _)
after_detector_loop(objects, ref, network, sub_network_ids, k, i) ==
    IF i > Len(sub_network_ids) THEN objects
    ELSE LET d == sub_network_ids[i]
         IN  after_detector_loop(
                 IF Gt(OfInt(network.detectors[d].SNR[k]), OfInt(network.detection_SNR[1]))
                 THEN [objects EXCEPT ![ref] = MatAdd(@, objects[d][k])]
                 ELSE objects,
                 ref, network, sub_network_ids, k, i + 1)

\* Lines 197-204 for the signals k..last.
RECURSIVE after_signal_loop(_, _, _, _, _, _)
after_signal_loop(objects, network, sub_network_ids, n_params, k, last) ==
    IF k > last THEN objects
    ELSE LET network_fisher_matrix == np_zeros(objects, n_params)
         IN  after_signal_loop(
                 after_detector_loop(network_fisher_matrix.objects,
                                     network_fisher_matrix.ref, network, sub_network_ids,
                                     k, 1),
                 network, sub_network_ids, n_params, k + 1, last)

\* compute_fisher_errors: the caller's network after a call whose loop
\* reached the signal last (0: the call ended before the loop).
after_compute_fisher_errors(network, fisher_parameters, sub_network_ids, last) ==
    LET objects == [d \in 0..Len(network.detectors) |->
                       IF d = 0 THEN << >> ELSE network.detectors[d].fisher_matrix]
        left == after_signal_loop(objects, network, sub_network_ids,
                                  Len(fisher_parameters), 1, last)
    IN  [network EXCEPT !.detectors =
            [d \in 1..Len(network.detectors) |->
                [network.detectors[d] EXCEPT !.fisher_matrix = left[d]]]]

(***************************************************************************)
(* State.                                                                  *)
(***************************************************************************)
VARIABLES
    \* analyze_and_save_to_txt: its arguments
    network, parameter_values, fisher_parameters, sub_network_ids_list, population_name,
    \* analyze_and_save_to_txt: its progress
    pc,         \* "compute", "write", "done", "raised", or "idle" (not running)
    position,   \* the loop's place in sub_network_ids_list
    call,       \* what the last call of compute_fisher_errors produced
    files,      \* the np.savetxt calls made so far, in order
    raised,     \* the exception that ended the run, or "none"
    \* invertSVD on its own
    matrix,     \* the argument
    inverse,    \* "pending", or what the call produced
    \* derivative on its own
    signal_parameters,  \* the ParameterVector handed over
    differentiated,     \* the parameter name p
    derivative_call,    \* "pending", or what the call produced
    \* FisherMatrix on its own (with signal_parameters)
    fisher_matrix_parameters,   \* its fisher_parameters
    fisher_matrix_call          \* "pending", or what the call produced

pipeline_vars == << network, parameter_values, fisher_parameters, sub_network_ids_list,
                    population_name, pc, position, call, files, raised >>

invert_vars == << matrix, inverse >>

derivative_vars == << signal_parameters, differentiated, derivative_call >>

fisher_matrix_vars == << fisher_matrix_parameters, fisher_matrix_call >>

vars == << pipeline_vars, invert_vars, derivative_vars, fisher_matrix_vars >>

Pending == [raised |-> "pending", value |-> << >>]

NoCall == [raised |-> "pending", network_snr |-> << >>, inverted |-> << >>,
           detected |-> << >>, result |-> NoResult]

(***************************************************************************)
(* analyze_and_save_to_txt (fishermatrix.py:273-303) on a network of two   *)
(* detectors.                                                              *)
(***************************************************************************)
\* The parameter table's columns, and signal k's value in column c.
Columns == << "mass_1", "ra", "dec" >>

ParameterTable(n_signals) ==
    [columns |-> Columns,
     rows |-> [k \in 1..n_signals |-> [c \in 1..Len(Columns) |-> 10 * k + c]]]

FisherParameterLists ==
    { << >>, << "mass_1" >>, << "ra", "dec" >>, << "dec", "ra" >>, << "mass_1", "dec" >> }

\* Per-detector SNRs of a signal; 2 and 3 also are the thresholds' values.
SNRValues == {0, 2, 3}

\* (per-detector inclusion threshold, network detection threshold)
DetectionSNRs == { << 0, 3 >>, << 2, 3 >>, << 2, 2 >> }

SubNetworkLists ==
    { << << 1 >> >>, << << 1, 2 >> >>, << << 2 >>, << 1, 2 >> >>, << << 2 >>, << 1 >> >> }

\* A detector's Fisher matrix for signal 1; signal k's is k times it.  Fisher
\* matrices are Gram matrices: positive definite, singular with a positive
\* diagonal, or with a zero diagonal entry (a vanishing derivative).
FisherChoices(n_params) ==
    IF n_params = 0 THEN { << >> }
    ELSE IF n_params = 1 THEN { << << 1 >> >>, << << 0 >> >> }
    ELSE { << << 2, 1 >>, << 1, 1 >> >>, << << 1, 1 >>, << 1, 1 >> >>,
           << << 1, 0 >>, << 0, 0 >> >> }

SecondDetectorFisher(n_params) ==
    IF n_params = 0 THEN << >>
    ELSE IF n_params = 1 THEN << << 3 >> >>
    ELSE << << 1, 0 >>, << 0, 3 >> >>

Detector(name, SNR, first_fisher_matrix) ==
    [name |-> name, SNR |-> SNR,
     fisher_matrix |-> [k \in 1..Len(SNR) |-> Scale(k, first_fisher_matrix)]]

IdleInvertSVD ==
    /\ matrix = << >>
    /\ inverse = Pending

PendingDerivative ==
    [raised |-> "pending", value |-> NoDerivative, hphc_calls |-> << >>,
     projection_calls |-> << >>]

IdleDerivative ==
    /\ signal_parameters = << >>
    /\ differentiated = "none"
    /\ derivative_call = PendingDerivative

PendingFisherMatrix == [raised |-> "pending", fm |-> << >>, derivative_calls |-> << >>]

\* FisherMatrix is not being called.
NoFisherMatrixCall == [raised |-> "idle", fm |-> << >>, derivative_calls |-> << >>]

IdleFisherMatrix ==
    /\ fisher_matrix_parameters = << >>
    /\ fisher_matrix_call = NoFisherMatrixCall

Init ==
    /\ fisher_parameters \in FisherParameterLists
    /\ \E n_signals \in 0..MaxSignals :
          /\ parameter_values = ParameterTable(n_signals)
          /\ \E snr1 \in [1..n_signals -> SNRValues], snr2 \in [1..n_signals -> SNRValues],
                fm1 \in FisherChoices(Len(fisher_parameters)),
                detection_SNR \in DetectionSNRs :
                network = [detectors |->
                              << Detector("ET", snr1, fm1),
                                 Detector("CE", snr2,
                                          SecondDetectorFisher(Len(fisher_parameters))) >>,
                           detection_SNR |-> detection_SNR]
    /\ sub_network_ids_list \in SubNetworkLists
    /\ population_name = "test"
    /\ pc = "compute"
    /\ position = 1
    /\ call = NoCall
    /\ files = << >>
    /\ raised = "none"
    /\ IdleInvertSVD
    /\ IdleDerivative
    /\ IdleFisherMatrix

\* Lines 283-288: the call of compute_fisher_errors for the selection at
\* position; an exception leaves analyze_and_save_to_txt.
Compute ==
    /\ pc = "compute"
    /\ call' = compute_fisher_errors(network, parameter_values, fisher_parameters,
                                     sub_network_ids_list[position])
    /\ raised' = call'.raised
    /\ pc' = IF call'.raised = "none" THEN "write" ELSE "raised"
    /\ network' = after_compute_fisher_errors(network, fisher_parameters,
                                              sub_network_ids_list[position],
                                              Len(call'.inverted))
    /\ UNCHANGED << parameter_values, fisher_parameters, sub_network_ids_list,
                    population_name, position, files, invert_vars, derivative_vars,
                    fisher_matrix_vars >>

\* Lines 290-303: the file name and output_to_txt_file, with the whole
\* parameter_values and what compute_fisher_errors returned; then the next
\* selection, or the end of the loop.
Write ==
    /\ pc = "write"
    /\ LET out == output_to_txt_file(
                      parameter_values, call.result.network_snr,
                      call.result.parameter_errors, call.result.sky_localization,
                      fisher_parameters,
                      errors_file_name(network, sub_network_ids_list[position],
                                       population_name))
       IN  /\ raised' = out.raised
           /\ files' = files \o out.file
           /\ pc' = IF out.raised # "none" THEN "raised"
                    ELSE IF position = Len(sub_network_ids_list) THEN "done"
                    ELSE "compute"
           /\ position' = IF out.raised = "none" /\ position < Len(sub_network_ids_list)
                          THEN position + 1 ELSE position
    /\ UNCHANGED << network, parameter_values, fisher_parameters, sub_network_ids_list,
                    population_name, call, invert_vars, derivative_vars,
                    fisher_matrix_vars >>

Next == Compute \/ Write

Spec == Init /\ [][Next]_vars

(***************************************************************************)
(* invertSVD on its own: every symmetric integer matrix of dimension 1 or  *)
(* 2 within the bounds, degenerate ones (a diagonal entry <= 0) included.  *)
(***************************************************************************)
IdlePipeline ==
    /\ network = [detectors |-> << >>, detection_SNR |-> << 0, 0 >>]
    /\ parameter_values = ParameterTable(0)
    /\ fisher_parameters = << >>
    /\ sub_network_ids_list = << >>
    /\ population_name = "test"
    /\ pc = "idle"
    /\ position = 1
    /\ call = NoCall
    /\ files = << >>
    /\ raised = "none"

SymmetricMatrices ==
    {<< << a >> >> : a \in -1..MaxDiag}
    \cup {<< << a, b >>, << b, c >> >> : a \in -1..MaxDiag, b \in -MaxOff..MaxOff,
                                         c \in -1..MaxDiag}

InitInvertSVD ==
    /\ IdlePipeline
    /\ IdleDerivative
    /\ IdleFisherMatrix
    /\ matrix \in SymmetricMatrices
    /\ inverse = Pending

CallInvertSVD ==
    /\ inverse = Pending
    /\ inverse' = invertSVD(matrix)
    /\ UNCHANGED << pipeline_vars, matrix, derivative_vars, fisher_matrix_vars >>

\* compute_fisher_errors on one signal seen by one detector whose Fisher
\* matrix is matrix, the detector above both thresholds.
ComputeOnMatrix ==
    /\ call = NoCall
    /\ call' = compute_fisher_errors(
                    [detectors |-> << [name |-> "ET", SNR |-> << 3 >>,
                                       fisher_matrix |-> << matrix >>] >>,
                     detection_SNR |-> << 0, 2 >>],
                    ParameterTable(1),
                    IF Dim(matrix) = 1 THEN << "mass_1" >> ELSE << "ra", "dec" >>,
                    << 1 >>)
    /\ UNCHANGED << network, parameter_values, fisher_parameters, sub_network_ids_list,
                    population_name, pc, position, files, raised, invert_vars, derivative_vars,
                    fisher_matrix_vars >>

NextInvertSVD == CallInvertSVD \/ ComputeOnMatrix

SpecInvertSVD == InitInvertSVD /\ [][NextInvertSVD]_vars

(***************************************************************************)
(* derivative on its own: every ParameterVector over a subset of the keys  *)
(* below, every parameter name among them.                                 *)
(***************************************************************************)
ParameterKeys ==
    {"geocent_time", "luminosity_distance", "phase", "ra", "dec", "psi", "mass_1"}

\* The signal's value of each parameter.
ParameterValue(key) ==
    IF key = "geocent_time" THEN Rational(7, 1)
    ELSE IF key = "luminosity_distance" THEN Rational(40, 1)
    ELSE IF key = "phase" THEN Rational(0, 1)
    ELSE IF key = "ra" THEN Rational(3, 1)
    ELSE IF key = "dec" THEN Rational(-1, 1)
    ELSE IF key = "psi" THEN Rational(-1, 2)
    ELSE Rational(7, 5)

TheDetector == [name |-> "ET", frequencyvector |-> "frequencyvector"]

InitDerivative ==
    /\ IdlePipeline
    /\ IdleInvertSVD
    /\ \E keys \in SUBSET ParameterKeys :
          signal_parameters = [key \in keys |-> ParameterValue(key)]
    /\ differentiated \in ParameterKeys
    /\ derivative_call = PendingDerivative
    /\ IdleFisherMatrix

CallDerivative ==
    /\ differentiated # "none"
    /\ derivative_call = PendingDerivative
    /\ derivative_call' = derivative("gwfish_TaylorF2", signal_parameters, differentiated,
                                     TheDetector)
    /\ signal_parameters' = after_derivative(signal_parameters, differentiated)
    /\ UNCHANGED << pipeline_vars, invert_vars, differentiated, fisher_matrix_vars >>

NextDerivative == CallDerivative

SpecDerivative == InitDerivative /\ [][NextDerivative]_vars

(***************************************************************************)
(* FisherMatrix on its own: every list of up to MaxParams distinct         *)
(* parameter names, on the full ParameterVector or one lacking a key.      *)
(***************************************************************************)
ParameterLists ==
    {list \in UNION {[1..n -> ParameterKeys] : n \in 0..MaxParams} :
        \A i, j \in DOMAIN list : list[i] = list[j] => i = j}

InitFisherMatrix ==
    /\ IdlePipeline
    /\ IdleInvertSVD
    /\ \E missing \in SUBSET ParameterKeys :
          /\ Cardinality(missing) <= 1
          /\ signal_parameters = [key \in ParameterKeys \ missing |-> ParameterValue(key)]
    /\ differentiated = "none"
    /\ derivative_call = PendingDerivative
    /\ fisher_matrix_parameters \in ParameterLists
    /\ fisher_matrix_call = PendingFisherMatrix

CallFisherMatrix ==
    /\ fisher_matrix_call = PendingFisherMatrix
    /\ fisher_matrix_call' = FisherMatrix("gwfish_TaylorF2", signal_parameters,
                                          fisher_matrix_parameters, TheDetector)
    /\ signal_parameters' = after_FisherMatrix(signal_parameters,
                                               fisher_matrix_call'.derivative_calls)
    /\ UNCHANGED << pipeline_vars, invert_vars, differentiated, derivative_call,
                    fisher_matrix_parameters >>

NextFisherMatrix == CallFisherMatrix

SpecFisherMatrix == InitFisherMatrix /\ [][NextFisherMatrix]_vars

(***************************************************************************)
(* The three together: a run is one of the runs above.                     *)
(***************************************************************************)
InitCalls == Init \/ InitDerivative \/ InitFisherMatrix

NextCalls == Compute \/ Write \/ CallDerivative \/ CallFisherMatrix

SpecCalls == InitCalls /\ [][NextCalls]_vars

(***************************************************************************)
(* What the claims speak of, stated from the arguments of the run.         *)
(***************************************************************************)
\* The selection the current call of compute_fisher_errors was made for.
Selection == sub_network_ids_list[position]

NSignals == Len(parameter_values.rows)

DetectorSNR(d, k) == network.detectors[d].SNR[k]

\* compute_fisher_errors has returned for Selection (the report is not yet
\* written); it, or invertSVD under it, has raised.
ComputeReturned == pc = "write"

ComputeRaised == pc = "raised" /\ call.raised # "none"

\* The sum of SNR_d(k)^2 over the detectors of the selection sel.
RECURSIVE SelectedSNRSquares(_, _)
SelectedSNRSquares(sel, k) ==
    IF sel = << >> THEN 0
    ELSE DetectorSNR(Head(sel), k) * DetectorSNR(Head(sel), k)
         + SelectedSNRSquares(Tail(sel), k)

\* Signal k's network SNR is strictly above the network-level threshold.
AboveNetworkThreshold(sel, k) ==
    LET t == network.detection_SNR[2]
    IN  t < 0 \/ SelectedSNRSquares(sel, k) > t * t

\* The places in sel of the detectors strictly above the per-detector threshold.
Contributing(sel, k) ==
    {i \in 1..Len(sel) : DetectorSNR(sel[i], k) > network.detection_SNR[1]}

RECURSIVE SumOver(_, _, _)
SumOver(places, sel, k) ==
    IF places = {} THEN Zeros(Len(fisher_parameters))
    ELSE LET i == CHOOSE x \in places : TRUE
         IN  MatAdd(network.detectors[sel[i]].fisher_matrix[k],
                    SumOver(places \ {i}, sel, k))

\* The sum of the Fisher matrices of the contributing detectors.
ContributingSum(sel, k) == SumOver(Contributing(sel, k), sel, k)

RECURSIVE Ascending(_)
Ascending(set) ==
    IF set = {} THEN << >>
    ELSE LET m == CHOOSE x \in set : \A y \in set : x <= y
         IN  << m >> \o Ascending(set \ {m})

\* The detected signals of sel, in the original order.
Kept(sel) == Ascending({k \in 1..NSignals : AboveNetworkThreshold(sel, k)})

HaveSky == {"ra", "dec"} \subseteq Range(fisher_parameters)

\* Signal k's row entries, from the sum of its contributing detectors.
SignalSNR(sel, k) == SqrtInt(SelectedSNRSquares(sel, k))

SignalErrors(sel, k) ==
    LET inv == invertSVD(ContributingSum(sel, k)).value
    IN  [j \in 1..Len(fisher_parameters) |-> Sqrt(inv[j][j])]

SignalSky(sel, k) ==
    sky_localization_area(invertSVD(ContributingSum(sel, k)).value,
                          parameter_values.rows[k][Index(parameter_values.columns, "dec")],
                          Index(fisher_parameters, "ra"), Index(fisher_parameters, "dec"))

\* The data rows a report of sel is to hold.
ExpectedRows(sel) ==
    [i \in 1..Len(Kept(sel)) |->
        << SignalSNR(sel, Kept(sel)[i]) >> \o parameter_values.rows[Kept(sel)[i]]
        \o SignalErrors(sel, Kept(sel)[i])
        \o (IF HaveSky THEN << SignalSky(sel, Kept(sel)[i]) >> ELSE << >>)]

(***************************************************************************)
(* The claims.                                                             *)
(***************************************************************************)
\* C1: whenever compute_fisher_errors returns, the three returned arrays hold,
\* in the original signal order, exactly the signals whose network SNR is
\* strictly greater than network.detection_SNR's second element: each such
\* signal once, and no signal at or below the threshold.
C1_ReturnsExactlyTheDetectedSignals ==
    ComputeReturned =>
        /\ call.result.network_snr
              = [i \in 1..Len(Kept(Selection)) |-> SignalSNR(Selection, Kept(Selection)[i])]
        /\ call.result.parameter_errors
              = [i \in 1..Len(Kept(Selection)) |-> SignalErrors(Selection, Kept(Selection)[i])]
        /\ ~call.result.sky_localization.is_none =>
              call.result.sky_localization.values
                 = [i \in 1..Len(Kept(Selection)) |-> SignalSky(Selection, Kept(Selection)[i])]

\* A return with one signal above the threshold and one exactly at it.
C1_Witness ==
    /\ ComputeReturned
    /\ \E k \in 1..NSignals : AboveNetworkThreshold(Selection, k)
    /\ \E k \in 1..NSignals :
          SelectedSNRSquares(Selection, k)
             = network.detection_SNR[2] * network.detection_SNR[2]
    /\ Len(call.result.network_snr) < NSignals

\* C2: for every signal k, the matrix handed to invertSVD is the elementwise
\* sum of detector.fisher_matrix[k] over exactly the selected detectors whose
\* SNR for k is strictly greater than the first element of
\* network.detection_SNR; a call that returns has inverted one matrix per signal.
C2_InvertedMatrixIsSumOverIncludedDetectors ==
    (ComputeReturned \/ ComputeRaised) =>
        /\ \A k \in 1..Len(call.inverted) : call.inverted[k] = ContributingSum(Selection, k)
        /\ ComputeReturned => Len(call.inverted) = NSignals

\* A detected signal with one selected detector exactly at the per-detector
\* threshold and another above it, the two thresholds being different.
C2_Witness ==
    /\ ComputeReturned
    /\ network.detection_SNR[1] # network.detection_SNR[2]
    /\ \E k \in 1..NSignals :
          /\ AboveNetworkThreshold(Selection, k)
          /\ \E i, j \in 1..Len(Selection) :
                /\ DetectorSNR(Selection[i], k) = network.detection_SNR[1]
                /\ DetectorSNR(Selection[j], k) > network.detection_SNR[1]

\* C3: every signal whose network SNR is above the network-level threshold
\* and whose matrix was handed to invertSVD has at least one selected
\* detector above the per-detector threshold.
C3_KeptSignalHasContributingDetector ==
    (ComputeReturned \/ ComputeRaised) =>
        \A k \in 1..Len(call.inverted) :
            AboveNetworkThreshold(Selection, k) => Contributing(Selection, k) # {}

\* C4: compute_fisher_errors never fails at a signal that has no selected
\* detector above the per-detector threshold and whose network SNR is not
\* above the network threshold.
C4_FaintSignalDoesNotFailTheCall ==
    ~ /\ ComputeRaised
      /\ call.raised = "LinAlgError"
      /\ Contributing(Selection, Len(call.inverted)) = {}
      /\ ~AboveNetworkThreshold(Selection, Len(call.inverted))

\* C5: writing the report of a selection never fails, and every report written
\* holds one row per detected signal of its selection: the signal's network
\* SNR, its own parameter values, its errors and, when present, its sky
\* localization.
C5_OneRowPerDetectedSignal ==
    /\ raised # "ValueError"
    /\ \A j \in 1..Len(files) : files[j].data = ExpectedRows(sub_network_ids_list[j])

\* C8: compute_fisher_errors returns a sky-localization array, with one entry
\* per returned network SNR in the same order, exactly when both "ra" and "dec"
\* are Fisher parameters, and None otherwise; a report's header ends with
\* err_sky_location exactly in that case.
C8_SkyLocalizationIffRaAndDec ==
    /\ ComputeReturned =>
          /\ call.result.sky_localization.is_none <=> ~HaveSky
          /\ HaveSky =>
                /\ Len(call.result.sky_localization.values) = Len(call.result.network_snr)
                /\ call.result.sky_localization.values
                      = [i \in 1..Len(Kept(Selection)) |->
                            SignalSky(Selection, Kept(Selection)[i])]
    /\ \A j \in 1..Len(files) :
          (files[j].header[Len(files[j].header)] = << "err_sky_location" >>) <=> HaveSky

\* A return with a sky-localization array, after a report with the column.
C8_Witness ==
    /\ ComputeReturned
    /\ HaveSky
    /\ Len(files) = 1
    /\ Len(call.result.sky_localization.values) > 0

\* C9: for every signal k the network SNR computed by compute_fisher_errors
\* squares to the sum of SNR_d(k)^2 over the detectors of the selection, those
\* at or below the per-detector threshold included, those not selected excluded.
C9_NetworkSNRIsQuadratureSumOverSelection ==
    ((ComputeReturned \/ ComputeRaised) /\ call.raised # "AssertionError") =>
        /\ Len(call.network_snr) = NSignals
        /\ \A k \in 1..NSignals :
              /\ call.network_snr[k].fin
              /\ call.network_snr[k].sgn >= 0
              /\ call.network_snr[k].n
                    = SelectedSNRSquares(Selection, k) * call.network_snr[k].d

\* The second selection, <<1, 2>>, returns with detector 1 heard but at or
\* below the per-detector threshold, after a report for detector 2 alone.
C9_Witness ==
    /\ ComputeReturned
    /\ position = 2
    /\ sub_network_ids_list = << << 2 >>, << 1, 2 >> >>
    /\ Len(files) = 1
    /\ \E k \in 1..NSignals :
          /\ DetectorSNR(1, k) > 0
          /\ DetectorSNR(1, k) <= network.detection_SNR[1]

(***************************************************************************)
(* Claims about invertSVD on its own (SpecInvertSVD).                      *)
(***************************************************************************)
Determinant(m) ==
    IF Dim(m) = 1 THEN m[1][1] ELSE m[1][1] * m[2][2] - m[1][2] * m[2][1]

\* C6: invertSVD of a matrix with a zero or negative diagonal entry raises and
\* returns no matrix, and the exception leaves compute_fisher_errors too.
C6_DegenerateMatrixRaises ==
    HasNonPositiveDiagonal(matrix) =>
        /\ inverse # Pending => inverse.raised = "LinAlgError" /\ inverse.value = << >>
        /\ call # NoCall => call.raised = "LinAlgError" /\ call.result = NoResult

\* Both calls made on a matrix with a negative diagonal entry.
C6_Witness ==
    /\ \E i \in 1..Dim(matrix) : matrix[i][i] < 0
    /\ inverse.raised = "LinAlgError"
    /\ call.raised = "LinAlgError"

\* C10: for a symmetric matrix M with strictly positive diagonal,
\* X = invertSVD(M) satisfies X M X = X and M X M = M; for nonsingular M also
\* X M = M X = I; and invertSVD([[1, 3], [3, 4]]) = [[-4/5, 3/5], [3/5, -1/5]].
C10_GeneralizedInverse ==
    (inverse # Pending /\ ~HasNonPositiveDiagonal(matrix)) =>
        /\ inverse.raised = "none"
        /\ AllRational(inverse.value)
        /\ MatMul(MatMul(inverse.value, IntMat(matrix)), inverse.value) = inverse.value
        /\ MatMul(MatMul(IntMat(matrix), inverse.value), IntMat(matrix)) = IntMat(matrix)
        /\ Determinant(matrix) # 0 =>
              /\ MatMul(inverse.value, IntMat(matrix)) = Identity(Dim(matrix))
              /\ MatMul(IntMat(matrix), inverse.value) = Identity(Dim(matrix))
        /\ matrix = << << 1, 3 >>, << 3, 4 >> >> =>
              inverse.value = << << Frac(-4, 5), Frac(3, 5) >>,
                                 << Frac(3, 5), Frac(-1, 5) >> >>

\* The inverse of a singular matrix with positive diagonal, [[1, 2], [2, 4]].
C10_Witness ==
    /\ matrix = << << 1, 2 >>, << 2, 4 >> >>
    /\ inverse.raised = "none"

(***************************************************************************)
(* Claims about derivative on its own (SpecDerivative).                    *)
(***************************************************************************)
\* C7: derivative raises, and returns no derivative array, whenever the
\* parameter name p is not a key of the ParameterVector, for every p, the
\* closed-form names luminosity_distance, geocent_time and phase included.
C7_AbsentParameterRaises ==
    (derivative_call # PendingDerivative /\ differentiated \notin DOMAIN signal_parameters)
        => derivative_call.raised # "none"

(***************************************************************************)
(* Claims about the order of the reports (Spec).                           *)
(***************************************************************************)
\* The name the report of the selection at place i is to be written to:
\* Errors_<detector names>_<population name>_SNR<network threshold>.txt
ReportName(i) ==
    << [prefix |-> "Errors_",
        sub_network |-> [j \in 1..Len(sub_network_ids_list[i]) |->
                            network.detectors[sub_network_ids_list[i][j]].name],
        population |-> population_name,
        SNR |-> network.detection_SNR[2]],
       ".txt" >>

\* C11: the reports written so far are one per selection, in the order of the
\* selection list and under the selection's file name; a report is written
\* only once the aggregation of its selection has returned; a run that ends
\* has written every report, unless the aggregation of the selection at
\* position failed, and then exactly the reports of the earlier selections
\* are written.
C11_OneReportPerSelectionInOrder ==
    pc # "idle" =>
        /\ Len(files) <= Len(sub_network_ids_list)
        /\ \A i \in 1..Len(files) : files[i].name = ReportName(i)
        /\ pc \in {"compute", "write"} => Len(files) = position - 1
        /\ pc = "write" => call.raised = "none"
        /\ pc = "done" => Len(files) = Len(sub_network_ids_list)
        /\ pc = "raised" => call.raised # "none" /\ Len(files) = position - 1

(***************************************************************************)
(* Claims about the strategy of derivative (SpecDerivative).               *)
(***************************************************************************)
DerivativeReturned == derivative_call.raised = "none"

\* What the waveform generator gives for the unperturbed parameters.
Unperturbed ==
    hphc_amplitudes("gwfish_TaylorF2", signal_parameters, TheDetector.frequencyvector)

LowestTerms(x) ==
    LET g == Gcd(Abs(x.num), x.den) IN Rational(x.num \div g, x.den \div g)

RationalEq(x, y) == LowestTerms(x) = LowestTerms(y)

RationalSum(x, y) ==
    LET g == Gcd(x.den, y.den)
    IN  Rational(x.num * (y.den \div g) + y.num * (x.den \div g), (x.den \div g) * y.den)

\* The vectors agree with signal_parameters on every key but those in except.
SameBut(vector, except) ==
    /\ DOMAIN vector = DOMAIN signal_parameters
    /\ \A key \in DOMAIN vector \ except : vector[key] = signal_parameters[key]

\* set1 and set2 are signal_parameters moved down and up at the differentiated
\* parameter by half of dp each, dp > 0.
CentralPair(set1, set2, dp) ==
    LET pv == signal_parameters[differentiated]
    IN  /\ dp.num > 0 /\ dp.den > 0
        /\ RationalEq(RationalSum(set1[differentiated], set2[differentiated]),
                      Rational(2 * pv.num, pv.den))
        /\ RationalEq(RationalSum(set1[differentiated], dp), set2[differentiated])

ClosedFormStrategy ==
    /\ derivative_call.value.kind = "closed form"
    /\ derivative_call.value.factor =
          (IF differentiated = "luminosity_distance"
           THEN << "-1.0 /", signal_parameters[differentiated] >>
           ELSE IF differentiated = "geocent_time"
           THEN << "2j * pi * frequencyvector" >>
           ELSE << "-1j" >>)
    /\ derivative_call.value.signal =
          projection(signal_parameters, TheDetector, Unperturbed.wave, Unperturbed.t_of_f)
    /\ derivative_call.hphc_calls = << signal_parameters >>
    /\ derivative_call.projection_calls = << signal_parameters >>

SharedWaveformStrategy ==
    LET value == derivative_call.value
    IN  /\ value.kind = "central difference"
        /\ derivative_call.hphc_calls = << signal_parameters >>
        /\ Len(derivative_call.projection_calls) = 2
        /\ derivative_call.projection_calls =
              << value.signal1.projection_of, value.signal2.projection_of >>
        /\ \A signal \in {value.signal1, value.signal2} :
              /\ signal.wave = Unperturbed.wave
              /\ signal.t_of_f = Unperturbed.t_of_f
              /\ SameBut(signal.projection_of, {differentiated})
        /\ CentralPair(value.signal1.projection_of, value.signal2.projection_of, value.dp)

RegeneratedWaveformStrategy ==
    LET value == derivative_call.value
        tc == signal_parameters["geocent_time"]
        generated == derivative_call.hphc_calls
        signals == << value.signal1, value.signal2 >>
    IN  /\ value.kind = "central difference"
        /\ Len(generated) = 2
        /\ derivative_call.projection_calls =
              << value.signal1.projection_of, value.signal2.projection_of >>
        /\ \A i \in 1..2 :
              \* the waveform generation sees geocent_time = 0
              /\ SameBut(generated[i], {differentiated, "geocent_time"})
              /\ generated[i]["geocent_time"] = Rational(0, 1)
              /\ generated[i][differentiated] = signals[i].projection_of[differentiated]
              \* the projection sees the true geocent_time and that waveform
              /\ SameBut(signals[i].projection_of, {differentiated})
              /\ signals[i].wave =
                    hphc_amplitudes("gwfish_TaylorF2", generated[i],
                                    TheDetector.frequencyvector).wave
              /\ signals[i].t_of_f = [t_of_f_of |-> generated[i], shifted_by |-> tc]
        /\ CentralPair(value.signal1.projection_of, value.signal2.projection_of, value.dp)

\* C12: a call of derivative that returns has followed the strategy its
\* parameter name selects: the closed form with one waveform generation and no
\* perturbed vector for luminosity_distance, geocent_time and phase; a central
\* difference of two projections of one unperturbed waveform for ra, dec and
\* psi; a central difference of two regenerated waveforms, generated with
\* geocent_time = 0 and projected with the true geocent_time, for the rest.
C12_StrategyFollowsParameterName ==
    DerivativeReturned =>
        IF differentiated \in {"luminosity_distance", "geocent_time", "phase"}
        THEN ClosedFormStrategy
        ELSE IF differentiated \in {"ra", "dec", "psi"}
        THEN SharedWaveformStrategy
        ELSE RegeneratedWaveformStrategy

\* A returned derivative with respect to mass_1, geocent_time being nonzero.
C12_Witness ==
    /\ DerivativeReturned
    /\ differentiated = "mass_1"
    /\ signal_parameters["geocent_time"].num # 0

(***************************************************************************)
(* Claims about the derivative evaluations of FisherMatrix                 *)
(* (SpecFisherMatrix).                                                     *)
(***************************************************************************)
FisherMatrixReturned == fisher_matrix_call.raised = "none"

\* How many times derivative was called for the parameter name.
Evaluations(name) ==
    Cardinality({i \in DOMAIN fisher_matrix_call.derivative_calls :
                    fisher_matrix_call.derivative_calls[i] = name})

\* C13, as the specification states it: the derivative evaluations of a call
\* of FisherMatrix are linear in the number n of Fisher parameters, no
\* parameter being differentiated more than twice (at most 2 n evaluations).
C13_LinearDerivativeEvaluations ==
    FisherMatrixReturned =>
        \A name \in Range(fisher_matrix_parameters) : Evaluations(name) <= 2

\* C13, amended: a returning call of FisherMatrix on n parameters evaluates
\* n (n + 1) / 2 derivatives, one per entry on or above the diagonal: the
\* parameter at place j once as the row derivative, kept for its row, and
\* once more for every earlier row.
C13_TriangularDerivativeEvaluations ==
    FisherMatrixReturned =>
        LET n == Len(fisher_matrix_parameters)
        IN  /\ 2 * Len(fisher_matrix_call.derivative_calls) = n * (n + 1)
            /\ \A j \in 1..n : Evaluations(fisher_matrix_parameters[j]) = j

\* A returned Fisher matrix on the longest list, every parameter present.
C13_Witness ==
    /\ FisherMatrixReturned
    /\ Len(fisher_matrix_parameters) = MaxParams
    /\ Len(fisher_matrix_call.fm) = MaxParams

(***************************************************************************)
(* Claims about the inputs of the calls (SpecCalls).                       *)
(***************************************************************************)
\* C14: no call of derivative, FisherMatrix or compute_fisher_errors,
\* returning or failing, changes what it was handed: the ParameterVector and
\* the parameter table keep their keys and values, and the network keeps its
\* detectors' SNR arrays and Fisher matrices and its thresholds.
C14_InputsNeverModified ==
    [][/\ signal_parameters' = signal_parameters
       /\ parameter_values' = parameter_values
       /\ network' = network
       /\ fisher_parameters' = fisher_parameters
       /\ fisher_matrix_parameters' = fisher_matrix_parameters]_vars

\* derivative has returned a central difference of regenerated waveforms,
\* made with geocent_time zeroed, for a vector whose geocent_time is not 0.
C14_Witness ==
    /\ derivative_call.raised = "none"
    /\ differentiated \notin {"luminosity_distance", "geocent_time", "phase", "ra", "dec", "psi"}
    /\ derivative_call.hphc_calls[1]["geocent_time"] = Rational(0, 1)
    /\ signal_parameters["geocent_time"] # Rational(0, 1)

(***************************************************************************)
(* Claims relating the pipeline to analyzeFisherErrors (Spec).             *)
(***************************************************************************)
RunEnded == pc \in {"done", "raised"}

\* What analyzeFisherErrors of refactoring_3 does on the arguments of the run.
Before ==
    analyzeFisherErrors(network, parameter_values, fisher_parameters, population_name,
                        sub_network_ids_list)

\* C15: for a non-empty Fisher parameter list, a run of
\* analyze_and_save_to_txt that has ended has made the report writes of
\* analyzeFisherErrors on the same arguments (as many, in the same order, with
\* the same file names, headers and data rows) and has failed if and only if
\* analyzeFisherErrors fails.
C15_SameReportsAsBeforeRefactoring ==
    (RunEnded /\ fisher_parameters # << >>) =>
        /\ (raised # "none") <=> (Before.raised # "none")
        /\ Len(files) = Len(Before.files)
        /\ \A i \in 1..Len(files) :
              /\ files[i].name = Before.files[i].name
              /\ files[i].header = Before.files[i].header
              /\ files[i].data = Before.files[i].data

=============================================================================
